---- MODULE Spec2Model ----
(***************************************************************************)
(* A model of item_synchronizer: the bi-directional Synchronizer           *)
(* (src/item_synchronizer/synchronizer.py), its helpers (helpers.py) and   *)
(* the resolution strategies (resolution_strategy.py).                     *)
(*                                                                         *)
(* One call of Synchronizer.sync is a run of the state machine: every      *)
(* iteration of a loop of _sync_new_items/_sync is one action, the         *)
(* iteration order over a Python set being a nondeterministic choice.      *)
(* The two stores behind the callbacks are the dictionaries of             *)
(* tests/test_synchronizer.py, each callback being allowed to raise.       *)
(***************************************************************************)
EXTENDS Integers, Sequences, FiniteSets, TLC

(***************************************************************************)
(* Bounds of the model.                                                    *)
(***************************************************************************)
\* At most this many callback invocations of one run raise or (a converter)
\* decline.
MaxFaults == 1

\* At most this many calls of sync are made on one Synchronizer.
MaxRuns == 2

\* The dates of the items handed to a resolution strategy are 1..MaxDate.
MaxDate == 4

(***************************************************************************)
(* Identifiers and items.  Side A's identifiers are 1, 2, 3, ... and side  *)
(* B's are 11, 12, 13, ...: the two sides share no identity space.         *)
(***************************************************************************)
NoId == 0

\* Python's None for an item: an absent item, a declined conversion.
None == [side |-> "none", val |-> 0]

ItemA(v) == [side |-> "A", val |-> v]

ItemB(v) == [side |-> "B", val |-> v]

\* The two identifier spaces: A's are below FirstIdB, B's from it on.
FirstIdB == 11

VARIABLES
    A_to_B,     \* the bidict: a set of pairs <<id_A, id_B>>; _B_to_A is its inverse view
    store_A,    \* side A's store: identifier -> item (the dict behind A's callbacks)
    store_B,    \* side B's store
    next_A,     \* the identifier side A's store gives its next inserted item
    next_B,     \* the identifier side B's store gives its next inserted item
    changes_A,  \* SideChanges of side A: [new, modified, deleted]
    changes_B,  \* SideChanges of side B
    rs,         \* the resolution strategy the Synchronizer was built with
    pc,         \* where the sync call stands
    todo,       \* the identifiers the current loop has still to visit
    locals,     \* the local sets of _sync (touched_from_B, ..., not_conflicts_from_A)
    stats,      \* self._stats: [A |-> TypeStats, B |-> TypeStats]
    calls,      \* every callback invocation so far, in order
    exc,        \* the exception propagating out of _sync ("none" when none)
    pre,        \* [A_to_B, store_A, store_B] as they were when sync was called
    accurate    \* whether stores, map and change sets were consistent when sync was called

vars == <<A_to_B, store_A, store_B, next_A, next_B, changes_A, changes_B, rs,
          pc, todo, locals, stats, calls, exc, pre, accurate>>

(***************************************************************************)
(* The bidirectional map (bidict.MutableBidict, injected at construction). *)
(***************************************************************************)
KeysA(m) == {p[1] : p \in m}

KeysB(m) == {p[2] : p \in m}

\* self._A_to_B[id_A]; the caller checks id_A \in KeysA(m) (KeyError otherwise)
LookupA(m, a) == (CHOOSE p \in m : p[1] = a)[2]

\* self._B_to_A[id_B]
LookupB(m, b) == (CHOOSE p \in m : p[2] = b)[1]

\* map_.pop(id_) on the A_to_B view: both directions go
PopA(m, a) == {p \in m : p[1] # a}

\* map_.pop(id_) on the B_to_A view
PopB(m, b) == {p \in m : p[2] # b}

(***************************************************************************)
(* The stores behind the callbacks (tests/test_synchronizer.py).           *)
(***************************************************************************)
Upsert(store, id, item) ==
    [x \in DOMAIN store \cup {id} |-> IF x = id THEN item ELSE store[x]]

Remove(store, id) == [x \in DOMAIN store \ {id} |-> store[x]]

\* item_getter_handle_exc(item_getter): KeyError becomes None
item_getter(store, id) == IF id \in DOMAIN store THEN store[id] ELSE None

\* converter_to_B: lambda item_A: ItemB(item_A.val)
converter_to_B(item) == ItemB(item.val)

\* converter_to_A: lambda item_B: ItemA(item_B.val)
converter_to_A(item) == ItemA(item.val)

(***************************************************************************)
(* Resolution strategies (resolution_strategy.py).  A ResolutionResult is  *)
(* [id |-> "A" | "B" | "Mix", item |-> the item chosen].                   *)
(***************************************************************************)
ResolutionResult(id, item) == [id |-> id, item |-> item]

\* The date getters handed to the recency strategies: the item's own stamp.
date_getter(item) == item.val

\* Mutant: the comparisons are strict (date1 > date2, date1 < date2).
compare_dates_Strict(strategy, date1, date2) ==
    IF strategy = "MostRecentRS" THEN date1 > date2 ELSE date1 < date2

\* compare_dates of MostRecentRS (date1 >= date2) and LeastRecentRS (date1 <= date2)
compare_dates(strategy, date1, date2) ==
    IF strategy = "MostRecentRS" THEN date1 >= date2 ELSE date1 <= date2

\* Mutant: only the case of two absent items is handled before the dates are
\* compared, an absent item counting as date 0.
RecencyRS_resolve_DatesFirst(strategy, item_A, item_B) ==
    IF item_A = None /\ item_B = None THEN ResolutionResult("A", item_A)
    ELSE IF compare_dates(strategy, date_getter(item_A), date_getter(item_B))
         THEN ResolutionResult("A", item_A)
         ELSE ResolutionResult("B", item_B)

\* The items _RecencyRS.resolve hands to self._date_getter_A and
\* self._date_getter_B, in order: none unless both items are present.
RecencyRS_date_getter_calls(item_A, item_B) ==
    IF item_A = None \/ item_B = None THEN << >> ELSE <<item_A, item_B>>

\* Mutant: two absent items are answered with Mix.
RecencyRS_resolve_AbsentMix(strategy, item_A, item_B) ==
    IF item_A = None /\ item_B = None THEN ResolutionResult("Mix", item_A)
    ELSE IF item_A = None THEN ResolutionResult("B", item_B)
    ELSE IF item_B = None THEN ResolutionResult("A", item_A)
    ELSE IF compare_dates(strategy, date_getter(item_A), date_getter(item_B))
         THEN ResolutionResult("A", item_A)
         ELSE ResolutionResult("B", item_B)

\* _RecencyRS.resolve
RecencyRS_resolve(strategy, item_A, item_B) ==
    IF item_A = None /\ item_B = None THEN ResolutionResult("A", item_A)
    ELSE IF item_A = None THEN ResolutionResult("B", item_B)
    ELSE IF item_B = None THEN ResolutionResult("A", item_A)
    ELSE IF compare_dates(strategy, date_getter(item_A), date_getter(item_B))
         THEN ResolutionResult("A", item_A)
         ELSE ResolutionResult("B", item_B)

\* Mutant: an absent item of A loses to a present item of B.
AlwaysFirstRS_resolve_PresentWins(item_A, item_B) ==
    IF item_A = None /\ item_B # None THEN ResolutionResult("B", item_B)
    ELSE ResolutionResult("A", item_A)

\* AlwaysFirstRS.resolve
AlwaysFirstRS_resolve(item_A, item_B) == ResolutionResult("A", item_A)

\* AlwaysSecondRS.resolve
AlwaysSecondRS_resolve(item_A, item_B) == ResolutionResult("B", item_B)

\* all_resolution_strategies
all_resolution_strategies ==
    {"AlwaysFirstRS", "AlwaysSecondRS", "MostRecentRS", "LeastRecentRS"}

\* A caller's own ResolutionStrategy subclass whose resolve answers Mix.
MixRS_resolve(item_A, item_B) == ResolutionResult("Mix", item_A)

Strategies == all_resolution_strategies \cup {"MixRS"}

\* self._rs.resolve(item_A=item_A, item_B=item_B)
resolve(strategy, item_A, item_B) ==
    CASE strategy = "AlwaysFirstRS" -> AlwaysFirstRS_resolve(item_A, item_B)
      [] strategy = "AlwaysSecondRS" -> AlwaysSecondRS_resolve(item_A, item_B)
      [] strategy \in {"MostRecentRS", "LeastRecentRS"} ->
            RecencyRS_resolve(strategy, item_A, item_B)
      [] OTHER -> MixRS_resolve(item_A, item_B)

(***************************************************************************)
(* Run statistics (helpers.TypeStats) and the record of callback calls.    *)
(***************************************************************************)
TypeStats == [created_new |-> 0, updated |-> 0, deleted |-> 0, errors |-> 0]

\* TypeStats.create_new on self._stats[side]
create_new(st, side) == [st EXCEPT ![side].created_new = @ + 1]

\* TypeStats.update
update(st, side) == [st EXCEPT ![side].updated = @ + 1]

\* TypeStats.delete
delete(st, side) == [st EXCEPT ![side].deleted = @ + 1]

\* The calls of sync that have ended, each having logged its statistics once
Runs(log) == Cardinality({i \in 1..Len(log) : log[i].op = "report"})

\* One callback invocation: op is the callback ("convert", "insert", "update",
\* "delete", "resolve", "report"), side the side it belongs to (the side written
\* to; a converter's target side), phase the phase of _sync that made it, id the
\* identifier passed (for convert and insert: the identifier being propagated),
\* peer its correspondent, item the item passed (resolve: item_A), other
\* resolve's item_B, rid the identifier an inserter returned, ritem the item a
\* converter or resolve returned, win resolve's result_id, ok whether the
\* callback returned (FALSE: it raised and _catch_exc returned None).
Call(op, side, phase, id, peer, item, other, rid, ritem, win, ok) ==
    [op |-> op, side |-> side, phase |-> phase, id |-> id, peer |-> peer,
     item |-> item, other |-> other, rid |-> rid, ritem |-> ritem,
     win |-> win, ok |-> ok]

\* What a callback invocation may do: return, raise, or (a converter) decline.
Outcomes == {"ok", "fail", "decline"}

\* The invocations recorded in log that raised or declined.
Faults(log) ==
    Cardinality({i \in 1..Len(log) :
                    ~log[i].ok \/ (log[i].op = "convert" /\ log[i].ritem = None)})

(***************************************************************************)
(* The Synchronizer (synchronizer.py).  Its methods are operators on s,    *)
(* the record of what a call can change:                                   *)
(*   [A_to_B, store_A, store_B, next_A, next_B, stats, calls, exc]         *)
(* and o, what the callbacks of this step do: o.cv the converter ("ok",    *)
(* "fail", "decline"), o.cb the inserter, updater or deleter ("ok",        *)
(* "fail").                                                                *)
(***************************************************************************)
Log(s, call) == [s EXCEPT !.calls = Append(@, call)]

Raise(s, e) == [s EXCEPT !.exc = e]

\* _catch_exc's except branch: the failure is logged and None returned; the
\* statistics are not touched.
catch_exc(st, side) == st

\* self._converter_to_A / self._converter_to_B wrapped by _catch_exc
converter(to_side, item, cv) ==
    IF cv # "ok" THEN None
    ELSE IF to_side = "A" THEN converter_to_A(item) ELSE converter_to_B(item)

\* The store's inserter (A_inserter / B_inserter): the item is stored under the
\* store's next identifier, which is returned.
inserter(s, to_side, item) ==
    IF to_side = "A"
    THEN [s EXCEPT !.store_A = Upsert(@, s.next_A, item), !.next_A = @ + 1]
    ELSE [s EXCEPT !.store_B = Upsert(@, s.next_B, item), !.next_B = @ + 1]

\* The store's updater (A_updater / B_updater): store[id_] = item
updater(s, to_side, id_, item) ==
    IF to_side = "A"
    THEN [s EXCEPT !.store_A = Upsert(@, id_, item)]
    ELSE [s EXCEPT !.store_B = Upsert(@, id_, item)]

\* The store's deleter (A_deleter / B_deleter)
deleter(s, to_side, id_) ==
    IF to_side = "A"
    THEN [s EXCEPT !.store_A = Remove(@, id_)]
    ELSE [s EXCEPT !.store_B = Remove(@, id_)]

\* Mutant: once the deleter has returned the whole map is cleared.
delete_n_pop_Clear(s, to_side, id_, ok) ==
    IF ~ok THEN [s EXCEPT !.stats = catch_exc(@, to_side)]
    ELSE [deleter(s, to_side, id_) EXCEPT !.A_to_B = {}]

\* Mutant: the pair is popped whether or not the deleter returned.
delete_n_pop_Always(s, to_side, id_, ok) ==
    LET d == IF ok THEN deleter(s, to_side, id_) ELSE s
    IN  IF to_side = "A"
        THEN [d EXCEPT !.A_to_B = PopA(@, id_)]
        ELSE [d EXCEPT !.A_to_B = PopB(@, id_)]

\* Mutant: the deleter is not wrapped by _catch_exc, its failure propagates.
delete_n_pop_Uncaught(s, to_side, id_, ok) ==
    IF ~ok THEN Raise(s, "CallbackError")
    ELSE LET d == deleter(s, to_side, id_)
         IN  IF to_side = "A"
             THEN [d EXCEPT !.A_to_B = PopA(@, id_)]
             ELSE [d EXCEPT !.A_to_B = PopB(@, id_)]

\* helpers.delete_n_pop(deleter, map_) under _catch_exc: the identifier is
\* popped from the map only when the deleter returned.
delete_n_pop(s, to_side, id_, ok) ==
    IF ~ok THEN [s EXCEPT !.stats = catch_exc(@, to_side)]
    ELSE LET d == deleter(s, to_side, id_)
         IN  IF to_side = "A"
             THEN [d EXCEPT !.A_to_B = PopA(@, id_)]
             ELSE [d EXCEPT !.A_to_B = PopB(@, id_)]

\* self._deleter_to_A(id_) / self._deleter_to_B(id_), then self._stats[..].delete()
delete_n_count(s, phase, to_side, id_, peer, o) ==
    LET ok == o.cb = "ok"
        d  == delete_n_pop(s, to_side, id_, ok)
        l  == Log(d, Call("delete", to_side, phase, id_, peer, None, None,
                          NoId, None, "-", ok))
    IN  [l EXCEPT !.stats = delete(@, to_side)]

\* Synchronizer._convert_n_insert: [s |-> the state after, new_id |-> its result]
convert_n_insert(s, id_, insert_to_side, o) ==
    LET from == IF insert_to_side = "A" THEN s.store_B ELSE s.store_A
        item == item_getter(from, id_)
        converted_item == converter(insert_to_side, item, o.cv)
        s1 == Log(s, Call("convert", insert_to_side, 1, id_, NoId, item, None,
                          NoId, converted_item, "-", o.cv # "fail"))
        ok == o.cb = "ok"
        new_id == IF ~ok THEN NoId
                  ELSE IF insert_to_side = "A" THEN s.next_A ELSE s.next_B
        s2 == IF ok THEN inserter(s1, insert_to_side, converted_item)
              ELSE [s1 EXCEPT !.stats = catch_exc(@, insert_to_side)]
        s3 == Log(s2, Call("insert", insert_to_side, 1, id_, NoId,
                           converted_item, None, new_id, None, "-", ok))
    IN  IF item = None THEN [s |-> s, new_id |-> NoId]
        ELSE IF converted_item = None
        THEN [s |-> IF o.cv = "fail"
                    THEN [s1 EXCEPT !.stats = catch_exc(@, insert_to_side)]
                    ELSE s1,
              new_id |-> NoId]
        ELSE [s |-> [s3 EXCEPT !.stats = create_new(@, insert_to_side)],
              new_id |-> new_id]

\* Mutant: the pair is added to whatever the map holds (a list of pairs, not a
\* bidict).
map_setitem_Append(s, id_, insert_to_side, inserted_id) ==
    [s EXCEPT !.A_to_B =
        @ \cup {IF insert_to_side = "B" THEN <<id_, inserted_id>>
                                        ELSE <<inserted_id, id_>>}]

\* Mutant: the pair is recorded the wrong way round (map_[inserted_id] = id_).
map_setitem_Swapped(s, id_, insert_to_side, inserted_id) ==
    [s EXCEPT !.A_to_B =
        @ \cup {IF insert_to_side = "B" THEN <<inserted_id, id_>>
                                        ELSE <<id_, inserted_id>>}]

\* map_[id_] = inserted_id of _sync_new_items, map_ being self._A_to_B when
\* inserting to B and self._B_to_A when inserting to A.
map_setitem(s, id_, insert_to_side, inserted_id) ==
    LET a == IF insert_to_side = "B" THEN id_ ELSE inserted_id
        b == IF insert_to_side = "B" THEN inserted_id ELSE id_
        m == s.A_to_B
    IN  IF insert_to_side = "B"
        THEN IF \E p \in m : p[2] = b /\ p[1] # a
             THEN Raise(s, "ValueDuplicationError")
             ELSE [s EXCEPT !.A_to_B = {p \in m : p[1] # a} \cup {<<a, b>>}]
        ELSE IF \E p \in m : p[1] = a /\ p[2] # b
             THEN Raise(s, "ValueDuplicationError")
             ELSE [s EXCEPT !.A_to_B = {p \in m : p[2] # b} \cup {<<a, b>>}]

\* One iteration of the inner loop of Synchronizer._sync_new_items
sync_new_item(s, id_, insert_to_side, o) ==
    LET r == convert_n_insert(s, id_, insert_to_side, o)
    IN  IF r.new_id = NoId THEN r.s
        ELSE map_setitem(r.s, id_, insert_to_side, r.new_id)

\* Mutant: the pair of the updated identifier is dropped from the map once the
\* updater has returned.
convert_n_update_ThenPop(s, phase, to_side, id_, peer, item, o) ==
    LET converted_item == converter(to_side, item, o.cv)
        s1 == Log(s, Call("convert", to_side, phase, peer, id_, item, None,
                          NoId, converted_item, "-", o.cv # "fail"))
        ok == o.cb = "ok"
        s2 == IF ok
              THEN [updater(s1, to_side, id_, converted_item) EXCEPT
                       !.A_to_B = IF to_side = "A" THEN PopA(@, id_)
                                                   ELSE PopB(@, id_)]
              ELSE [s1 EXCEPT !.stats = catch_exc(@, to_side)]
        s3 == Log(s2, Call("update", to_side, phase, id_, peer, converted_item,
                           None, NoId, None, "-", ok))
    IN  IF item = None THEN Raise(s, "AssertionError")
        ELSE IF converted_item = None
        THEN IF o.cv = "fail"
             THEN [s1 EXCEPT !.stats = catch_exc(@, to_side)]
             ELSE s1
        ELSE [s3 EXCEPT !.stats = update(@, to_side)]

\* Mutant: the updater is called and counted whatever the converter returned.
convert_n_update_NoSkip(s, phase, to_side, id_, peer, item, o) ==
    LET converted_item == converter(to_side, item, o.cv)
        s1 == Log(s, Call("convert", to_side, phase, peer, id_, item, None,
                          NoId, converted_item, "-", o.cv # "fail"))
        ok == o.cb = "ok"
        s2 == IF ok THEN updater(s1, to_side, id_, converted_item)
              ELSE [s1 EXCEPT !.stats = catch_exc(@, to_side)]
        s3 == Log(s2, Call("update", to_side, phase, id_, peer, converted_item,
                           None, NoId, None, "-", ok))
    IN  IF item = None THEN Raise(s, "AssertionError")
        ELSE [s3 EXCEPT !.stats = update(@, to_side)]

\* Synchronizer._convert_n_update_to_A / _convert_n_update_to_B: id_ is the
\* identifier updated (on to_side), peer the identifier the item comes from.
convert_n_update(s, phase, to_side, id_, peer, item, o) ==
    LET converted_item == converter(to_side, item, o.cv)
        s1 == Log(s, Call("convert", to_side, phase, peer, id_, item, None,
                          NoId, converted_item, "-", o.cv # "fail"))
        ok == o.cb = "ok"
        s2 == IF ok THEN updater(s1, to_side, id_, converted_item)
              ELSE [s1 EXCEPT !.stats = catch_exc(@, to_side)]
        s3 == Log(s2, Call("update", to_side, phase, id_, peer, converted_item,
                           None, NoId, None, "-", ok))
    IN  IF item = None THEN Raise(s, "AssertionError")
        ELSE IF converted_item = None
        THEN IF o.cv = "fail"
             THEN [s1 EXCEPT !.stats = catch_exc(@, to_side)]
             ELSE s1
        ELSE [s3 EXCEPT !.stats = update(@, to_side)]

\* changes.modified.union(changes.deleted)
touched(changes) == changes.modified \cup changes.deleted

\* {self._B_to_A[change]: change for change in touched_from_B}
touched_in_A_map(m, touched_from_B) ==
    [a \in {LookupB(m, b) : b \in touched_from_B} |->
        CHOOSE b \in touched_from_B : <<a, b>> \in m]

\* {self._A_to_B[change]: change for change in touched_from_A}
touched_in_B_map(m, touched_from_A) ==
    [b \in {LookupA(m, a) : a \in touched_from_A} |->
        CHOOSE a \in touched_from_A : <<a, b>> \in m]

\* Mutant: every touched identifier of B is taken for a conflict.
conflicts_in_B_AllTouched(touched_from_B, touched_from_A_in_B_map) ==
    touched_from_B

\* touched_from_B.intersection(touched_from_A_in_B_map)
conflicts_in_B(touched_from_B, touched_from_A_in_B_map) ==
    touched_from_B \cap DOMAIN touched_from_A_in_B_map

\* touched_from_B.difference(touched_from_A_in_B_map)
not_conflicts_from_B(touched_from_B, touched_from_A_in_B_map) ==
    touched_from_B \ DOMAIN touched_from_A_in_B_map

\* Mutant: the difference is taken with the map of the wrong side, whose keys
\* are B's identifiers, so that no identifier of A is removed.
not_conflicts_from_A_WrongMap(touched_from_A, touched_from_B_in_A_map) ==
    touched_from_A \ {touched_from_B_in_A_map[a] : a \in DOMAIN touched_from_B_in_A_map}

\* touched_from_A.difference(touched_from_B_in_A_map)
not_conflicts_from_A(touched_from_A, touched_from_B_in_A_map) ==
    touched_from_A \ DOMAIN touched_from_B_in_A_map

NoLocals ==
    [touched_from_B |-> {}, touched_from_B_in_A_map |-> << >>,
     touched_from_A |-> {}, touched_from_A_in_B_map |-> << >>,
     conflicts_in_B |-> {}]

\* The local sets _sync computes once _sync_new_items has returned (every
\* touched identifier being in the map).
classify(m, cA, cB) ==
    LET tB == touched(cB)
        tA == touched(cA)
        tA_in_B == touched_in_B_map(m, tA)
    IN  [touched_from_B |-> tB,
         touched_from_B_in_A_map |-> touched_in_A_map(m, tB),
         touched_from_A |-> tA,
         touched_from_A_in_B_map |-> tA_in_B,
         conflicts_in_B |-> conflicts_in_B(tB, tA_in_B)]

\* Mutant: the loser's deleter is called whether or not the loser had recorded
\* the identifier as deleted.
apply_winner_AlwaysDelete(s, winner, item, loser_id, winner_id, loser_deleted, o) ==
    LET loser == IF winner = "A" THEN "B" ELSE "A"
    IN  IF item = None
        THEN delete_n_count(s, 3, loser, loser_id, winner_id, o)
        ELSE convert_n_update(s, 3, loser, loser_id, winner_id, item, o)

\* Mutant: the deletion is applied to the winner's side instead of the loser's.
apply_winner_DeleteWinner(s, winner, item, loser_id, winner_id, loser_deleted, o) ==
    LET loser == IF winner = "A" THEN "B" ELSE "A"
    IN  IF item = None
        THEN IF loser_deleted
             THEN IF loser = "B"
                  THEN [s EXCEPT !.A_to_B = PopB(@, loser_id)]
                  ELSE [s EXCEPT !.A_to_B = PopA(@, loser_id)]
             ELSE delete_n_count(s, 3, winner, winner_id, loser_id, o)
        ELSE convert_n_update(s, 3, loser, loser_id, winner_id, item, o)

\* Mutant: a loser recorded as deleted is only dropped from the map, whatever
\* the winner's item.
apply_winner_DeletionFirst(s, winner, item, loser_id, winner_id, loser_deleted, o) ==
    LET loser == IF winner = "A" THEN "B" ELSE "A"
    IN  IF loser_deleted
        THEN IF loser = "B"
             THEN [s EXCEPT !.A_to_B = PopB(@, loser_id)]
             ELSE [s EXCEPT !.A_to_B = PopA(@, loser_id)]
        ELSE IF item = None
        THEN delete_n_count(s, 3, loser, loser_id, winner_id, o)
        ELSE convert_n_update(s, 3, loser, loser_id, winner_id, item, o)

\* The branch of the conflict loop taken when side `winner` wins: the other
\* side (loser) is deleted from, dropped from the map, or updated.
apply_winner(s, winner, item, loser_id, winner_id, loser_deleted, o) ==
    LET loser == IF winner = "A" THEN "B" ELSE "A"
    IN  IF item = None
        THEN IF loser_deleted
             THEN IF loser = "B"
                  THEN [s EXCEPT !.A_to_B = PopB(@, loser_id)]
                  ELSE [s EXCEPT !.A_to_B = PopA(@, loser_id)]
             ELSE delete_n_count(s, 3, loser, loser_id, winner_id, o)
        ELSE convert_n_update(s, 3, loser, loser_id, winner_id, item, o)

\* Mutant: a Mix result is handled as a win of side A instead of raising.
resolve_conflict_MixAsA(s, cA, cB, strategy, conflict_in_B, o) ==
    IF conflict_in_B \notin KeysB(s.A_to_B) THEN Raise(s, "KeyError")
    ELSE
    LET conflict_in_A == LookupB(s.A_to_B, conflict_in_B)
        item_B == item_getter(s.store_B, conflict_in_B)
        item_A == item_getter(s.store_A, conflict_in_A)
        result == resolve(strategy, item_A, item_B)
        s1 == Log(s, Call("resolve", "-", 3, conflict_in_B, conflict_in_A,
                          item_A, item_B, NoId, result.item, result.id, TRUE))
    IN  IF result.id \in {"A", "Mix"}
        THEN apply_winner(s1, "A", item_A, conflict_in_B, conflict_in_A,
                          conflict_in_B \in cB.deleted, o)
        ELSE apply_winner(s1, "B", item_B, conflict_in_A, conflict_in_B,
                          conflict_in_A \in cA.deleted, o)

\* One iteration of "for conflict_in_B in conflicts_in_B" of Synchronizer._sync
resolve_conflict(s, cA, cB, strategy, conflict_in_B, o) ==
    IF conflict_in_B \notin KeysB(s.A_to_B) THEN Raise(s, "KeyError")
    ELSE
    LET conflict_in_A == LookupB(s.A_to_B, conflict_in_B)
        item_B == item_getter(s.store_B, conflict_in_B)
        item_A == item_getter(s.store_A, conflict_in_A)
        result == resolve(strategy, item_A, item_B)
        s1 == Log(s, Call("resolve", "-", 3, conflict_in_B, conflict_in_A,
                          item_A, item_B, NoId, result.item, result.id, TRUE))
    IN  IF result.id = "Mix" THEN Raise(s1, "MixError")
        ELSE IF result.id = "A"
        THEN apply_winner(s1, "A", item_A, conflict_in_B, conflict_in_A,
                          conflict_in_B \in cB.deleted, o)
        ELSE apply_winner(s1, "B", item_B, conflict_in_A, conflict_in_B,
                          conflict_in_A \in cA.deleted, o)

\* Mutant: the deleted set is tested before the modified set.
propagate_from_B_DeletedFirst(s, cB, id_B, o) ==
    IF id_B \notin KeysB(s.A_to_B) THEN Raise(s, "KeyError")
    ELSE
    LET id_A == LookupB(s.A_to_B, id_B)
    IN  IF id_B \in cB.deleted
        THEN delete_n_count(s, 4, "A", id_A, id_B, o)
        ELSE IF id_B \in cB.modified
        THEN convert_n_update(s, 4, "A", id_A, id_B,
                              item_getter(s.store_B, id_B), o)
        ELSE Raise(s, "ProgrammaticError")

\* One iteration of "for id_B in not_conflicts_from_B" of Synchronizer._sync
propagate_from_B(s, cB, id_B, o) ==
    IF id_B \notin KeysB(s.A_to_B) THEN Raise(s, "KeyError")
    ELSE
    LET id_A == LookupB(s.A_to_B, id_B)
    IN  IF id_B \in cB.modified
        THEN convert_n_update(s, 4, "A", id_A, id_B,
                              item_getter(s.store_B, id_B), o)
        ELSE IF id_B \in cB.deleted
        THEN delete_n_count(s, 4, "A", id_A, id_B, o)
        ELSE Raise(s, "ProgrammaticError")

\* Mutant: the change of A is applied to A's own item instead of its correspondent.
propagate_from_A_SameSide(s, cA, id_A, o) ==
    IF id_A \notin KeysA(s.A_to_B) THEN Raise(s, "KeyError")
    ELSE
    LET id_B == LookupA(s.A_to_B, id_A)
    IN  IF id_A \in cA.modified
        THEN convert_n_update(s, 4, "A", id_A, id_B,
                              item_getter(s.store_A, id_A), o)
        ELSE IF id_A \in cA.deleted
        THEN delete_n_count(s, 4, "A", id_A, id_B, o)
        ELSE Raise(s, "ProgrammaticError")

\* One iteration of "for id_A in not_conflicts_from_A" of Synchronizer._sync
propagate_from_A(s, cA, id_A, o) ==
    IF id_A \notin KeysA(s.A_to_B) THEN Raise(s, "KeyError")
    ELSE
    LET id_B == LookupA(s.A_to_B, id_A)
    IN  IF id_A \in cA.modified
        THEN convert_n_update(s, 4, "B", id_B, id_A,
                              item_getter(s.store_A, id_A), o)
        ELSE IF id_A \in cA.deleted
        THEN delete_n_count(s, 4, "B", id_B, id_A, o)
        ELSE Raise(s, "ProgrammaticError")

(***************************************************************************)
(* The states a caller hands to sync.  The map pairs A's 1 with B's 12 and *)
(* A's 2 with B's 11; A's 3 and B's 13 are unmapped.  Each identifier has  *)
(* a kind that decides its place in the change set and in the store:       *)
(*   "none" untouched, "new", "mod" modified, "del" deleted,               *)
(*   "mod_gone" / "new_gone" listed as modified / new but no longer in the *)
(*   store (deleted after the change set was built), "del_kept" listed as  *)
(*   deleted but in the store (created again since), "moddel" listed as    *)
(*   modified and as deleted, "newmod" listed as new and as modified.      *)
(***************************************************************************)
Kinds1 == {"none", "mod", "mod_gone", "del", "del_kept", "moddel"}

Kinds2 == {<<"none", "none">>, <<"mod", "mod">>, <<"del", "none">>,
           <<"none", "mod">>, <<"del", "del">>}

Kinds3 == {<<"none", "none">>, <<"new", "none">>, <<"none", "new">>,
           <<"new", "new">>, <<"new_gone", "none">>, <<"none", "new_gone">>,
           <<"new", "new_gone">>,
           <<"mod", "none">>, <<"none", "del">>,
           <<"new", "del">>, <<"mod", "new">>}

\* SideChanges(new, modified, deleted) of the identifiers whose kinds k gives
SideChanges(k) ==
    [new |-> {i \in DOMAIN k : k[i] \in {"new", "new_gone", "newmod"}},
     modified |-> {i \in DOMAIN k : k[i] \in {"mod", "mod_gone", "moddel", "newmod"}},
     deleted |-> {i \in DOMAIN k : k[i] \in {"del", "del_kept", "moddel"}}]

\* The stamp of an item: 1 while untouched; a modification or a creation on
\* side A stamps 2 or 4, on side B 3 or 5.
Stamp(kind, side) ==
    IF kind \in {"mod", "moddel", "del_kept"} THEN (IF side = "A" THEN 2 ELSE 3)
    ELSE IF kind \in {"new", "newmod"} THEN (IF side = "A" THEN 4 ELSE 5)
    ELSE 1

\* The store of a side whose identifiers have kinds k; mapped tells the
\* identifiers that have a correspondent.
StoreOf(k, side, mapped) ==
    [i \in {j \in DOMAIN k : \/ k[j] \in {"mod", "moddel", "del_kept", "new", "newmod"}
                             \/ k[j] = "none" /\ j \in mapped} |->
        [side |-> side, val |-> Stamp(k[i], side)]]

\* Stores, map and change sets are consistent: the change sets are pairwise
\* disjoint, new lists the stored identifiers without correspondent, touched
\* identifiers are mapped, deleted lists the mapped identifiers no longer
\* stored, and a pair untouched on both sides holds corresponding items.
Accurate(m, sA, sB, cA, cB) ==
    /\ cA.new \cap touched(cA) = {} /\ cA.modified \cap cA.deleted = {}
    /\ cB.new \cap touched(cB) = {} /\ cB.modified \cap cB.deleted = {}
    /\ cA.new = DOMAIN sA \ KeysA(m)
    /\ cB.new = DOMAIN sB \ KeysB(m)
    /\ touched(cA) \subseteq KeysA(m)
    /\ touched(cB) \subseteq KeysB(m)
    /\ cA.deleted = KeysA(m) \ DOMAIN sA
    /\ cB.deleted = KeysB(m) \ DOMAIN sB
    /\ \A p \in m :
          p[1] \notin touched(cA) /\ p[2] \notin touched(cB)
             => sB[p[2]] = converter_to_B(sA[p[1]])

\* The state after construction, the caller holding change sets of the kinds
\* K1 (for A's 1 and B's 12), K2 and K3 and a strategy of S.  Store B gives
\* its next item an identifier of N from which on no identifier is in use: a
\* fresh one (14), or that of an item it no longer holds (12, which the map
\* still pairs with A's 1).
InitOf(K1, K2, K3, S, N) ==
    \E k1A \in K1, k1B \in K1, k2 \in K2, k3 \in K3, strategy \in S, n \in N :
        LET kA == (1 :> k1A) @@ (2 :> k2[1]) @@ (3 :> k3[1])
            kB == (12 :> k1B) @@ (11 :> k2[2]) @@ (13 :> k3[2])
        IN  /\ A_to_B = {<<1, 12>>, <<2, 11>>}
            /\ store_A = StoreOf(kA, "A", {1, 2})
            /\ store_B = StoreOf(kB, "B", {11, 12})
            /\ next_A = 4
            /\ next_B = n
            /\ \A i \in n..13 : i \notin DOMAIN store_B
            /\ changes_A = SideChanges(kA)
            /\ changes_B = SideChanges(kB)
            /\ rs = strategy
            /\ pc = "idle"
            /\ todo = {}
            /\ locals = NoLocals
            /\ stats = [A |-> TypeStats, B |-> TypeStats]
            /\ calls = << >>
            /\ exc = "none"
            /\ pre = [A_to_B |-> {}, store_A |-> << >>, store_B |-> << >>]
            /\ accurate = FALSE

Init == InitOf(Kinds1, Kinds2, Kinds3, Strategies, {14})

\* The calls followed to their end: change sets with new items on both sides,
\* a conflict, changes without conflict and an identifier without
\* correspondent, under a built-in strategy or one that answers Mix.
InitLive ==
    InitOf({"none", "mod", "del"}, {<<"none", "none">>, <<"mod", "mod">>},
           {<<"none", "none">>, <<"new", "new">>, <<"new", "del">>},
           {"AlwaysFirstRS", "MostRecentRS", "MixRS"}, {14})

\* The calls in which an identifier without correspondent is listed as new
\* and as modified, so that Phase 1 gives it the correspondent its update
\* needs.
InitOrder ==
    InitOf({"none", "mod", "del"}, {<<"none", "none">>, <<"mod", "mod">>},
           {<<"none", "none">>, <<"new", "new">>, <<"newmod", "none">>,
            <<"newmod", "new">>, <<"mod", "new">>},
           {"AlwaysFirstRS", "AlwaysSecondRS"}, {14})

\* The Synchronizers that sync is called on more than once.
InitRepeat ==
    InitOf({"none", "mod", "del"}, {<<"none", "none">>, <<"mod", "mod">>},
           {<<"new", "none">>, <<"none", "new">>, <<"new", "new">>,
            <<"new", "del">>},
           {"AlwaysFirstRS", "AlwaysSecondRS", "MixRS"}, {12, 14})

(***************************************************************************)
(* The actions: Synchronizer.sync, step by step.                           *)
(***************************************************************************)
\* What a step can change, as the record the operators above work on.
Cur ==
    [A_to_B |-> A_to_B, store_A |-> store_A, store_B |-> store_B,
     next_A |-> next_A, next_B |-> next_B, stats |-> stats, calls |-> calls,
     exc |-> exc]

Becomes(s) ==
    /\ A_to_B' = s.A_to_B
    /\ store_A' = s.store_A
    /\ store_B' = s.store_B
    /\ next_A' = s.next_A
    /\ next_B' = s.next_B
    /\ stats' = s.stats
    /\ calls' = s.calls
    /\ exc' = s.exc

\* What the callbacks of one step may do, within the bound on faults.
StepOutcomes == [cv : Outcomes, cb : {"ok", "fail"}]

\* One iteration of a loop ended in s: the loop goes on unless an exception
\* propagates, which leaves _sync for the finally clause of sync.
Iterated(s, id_) ==
    /\ Faults(s.calls) <= MaxFaults
    /\ Becomes(s)
    /\ IF s.exc = "none"
       THEN pc' = pc /\ todo' = todo \ {id_}
       ELSE pc' = "finally" /\ todo' = {}

\* sync(changes_A, changes_B) is called: _sync starts with _sync_new_items.
Sync ==
    /\ pc = "idle"
    /\ pc' = "new_A"
    /\ todo' = changes_A.new
    /\ pre' = [A_to_B |-> A_to_B, store_A |-> store_A, store_B |-> store_B]
    /\ accurate' = Accurate(A_to_B, store_A, store_B, changes_A, changes_B)
    /\ UNCHANGED <<A_to_B, store_A, store_B, next_A, next_B, changes_A,
                   changes_B, rs, locals, stats, calls, exc>>

\* _sync_new_items: one identifier of changes_A.new is inserted to B.
NewItemFromA ==
    /\ pc = "new_A"
    /\ \E id_ \in todo, o \in StepOutcomes :
          Iterated(sync_new_item(Cur, id_, "B", o), id_)
    /\ UNCHANGED <<changes_A, changes_B, rs, locals, pre, accurate>>

\* _sync_new_items: changes_A.new is done, changes_B.new follows.
EndNewFromA ==
    /\ pc = "new_A" /\ todo = {}
    /\ pc' = "new_B"
    /\ todo' = changes_B.new
    /\ UNCHANGED <<A_to_B, store_A, store_B, next_A, next_B, changes_A,
                   changes_B, rs, locals, stats, calls, exc, pre, accurate>>

\* _sync_new_items: one identifier of changes_B.new is inserted to A.
NewItemFromB ==
    /\ pc = "new_B"
    /\ \E id_ \in todo, o \in StepOutcomes :
          Iterated(sync_new_item(Cur, id_, "A", o), id_)
    /\ UNCHANGED <<changes_A, changes_B, rs, locals, pre, accurate>>

\* Mutant: the touched identifiers are mapped through the map as it was when
\* sync was called, before _sync_new_items.
Classify_BeforeNewItems ==
    /\ pc = "new_B" /\ todo = {}
    /\ IF /\ touched(changes_B) \subseteq KeysB(pre.A_to_B)
          /\ touched(changes_A) \subseteq KeysA(pre.A_to_B)
       THEN /\ locals' = classify(pre.A_to_B, changes_A, changes_B)
            /\ pc' = "conflicts"
            /\ todo' = locals'.conflicts_in_B
            /\ exc' = exc
       ELSE /\ locals' = locals
            /\ pc' = "finally"
            /\ todo' = {}
            /\ exc' = "KeyError"
    /\ UNCHANGED <<A_to_B, store_A, store_B, next_A, next_B, changes_A,
                   changes_B, rs, stats, calls, pre, accurate>>

\* Mutant: a touched identifier without correspondent is skipped silently.
Classify_SkipUnmapped ==
    /\ pc = "new_B" /\ todo = {}
    /\ locals' = classify(A_to_B,
                          [changes_A EXCEPT !.modified = @ \cap KeysA(A_to_B),
                                            !.deleted = @ \cap KeysA(A_to_B)],
                          [changes_B EXCEPT !.modified = @ \cap KeysB(A_to_B),
                                            !.deleted = @ \cap KeysB(A_to_B)])
    /\ pc' = "conflicts"
    /\ todo' = locals'.conflicts_in_B
    /\ UNCHANGED <<A_to_B, store_A, store_B, next_A, next_B, changes_A,
                   changes_B, rs, stats, calls, exc, pre, accurate>>

\* _sync_new_items has returned: _sync maps the touched identifiers through
\* the map (KeyError for one without correspondent) and finds the conflicts.
Classify ==
    /\ pc = "new_B" /\ todo = {}
    /\ IF /\ touched(changes_B) \subseteq KeysB(A_to_B)
          /\ touched(changes_A) \subseteq KeysA(A_to_B)
       THEN /\ locals' = classify(A_to_B, changes_A, changes_B)
            /\ pc' = "conflicts"
            /\ todo' = locals'.conflicts_in_B
            /\ exc' = exc
       ELSE /\ locals' = locals
            /\ pc' = "finally"
            /\ todo' = {}
            /\ exc' = "KeyError"
    /\ UNCHANGED <<A_to_B, store_A, store_B, next_A, next_B, changes_A,
                   changes_B, rs, stats, calls, pre, accurate>>

\* One conflict is resolved.
ResolveConflict ==
    /\ pc = "conflicts"
    /\ \E id_ \in todo, o \in StepOutcomes :
          Iterated(resolve_conflict(Cur, changes_A, changes_B, rs, id_, o), id_)
    /\ UNCHANGED <<changes_A, changes_B, rs, locals, pre, accurate>>

\* The conflicts are done: the changes of B without conflict follow.
EndConflicts ==
    /\ pc = "conflicts" /\ todo = {}
    /\ pc' = "not_conflicts_B"
    /\ todo' = not_conflicts_from_B(locals.touched_from_B,
                                    locals.touched_from_A_in_B_map)
    /\ UNCHANGED <<A_to_B, store_A, store_B, next_A, next_B, changes_A,
                   changes_B, rs, locals, stats, calls, exc, pre, accurate>>

\* One change of B without conflict is applied to A.
PropagateFromB ==
    /\ pc = "not_conflicts_B"
    /\ \E id_ \in todo, o \in StepOutcomes :
          Iterated(propagate_from_B(Cur, changes_B, id_, o), id_)
    /\ UNCHANGED <<changes_A, changes_B, rs, locals, pre, accurate>>

\* The changes of B are done: the changes of A without conflict follow.
EndPropagateFromB ==
    /\ pc = "not_conflicts_B" /\ todo = {}
    /\ pc' = "not_conflicts_A"
    /\ todo' = not_conflicts_from_A(locals.touched_from_A,
                                    locals.touched_from_B_in_A_map)
    /\ UNCHANGED <<A_to_B, store_A, store_B, next_A, next_B, changes_A,
                   changes_B, rs, locals, stats, calls, exc, pre, accurate>>

\* One change of A without conflict is applied to B.
PropagateFromA ==
    /\ pc = "not_conflicts_A"
    /\ \E id_ \in todo, o \in StepOutcomes :
          Iterated(propagate_from_A(Cur, changes_A, id_, o), id_)
    /\ UNCHANGED <<changes_A, changes_B, rs, locals, pre, accurate>>

\* _sync returns.
EndPropagateFromA ==
    /\ pc = "not_conflicts_A" /\ todo = {}
    /\ pc' = "finally"
    /\ UNCHANGED <<A_to_B, store_A, store_B, next_A, next_B, changes_A,
                   changes_B, rs, todo, locals, stats, calls, exc, pre,
                   accurate>>

\* Mutant: the statistics are logged only when _sync returned (no finally).
Report_OnReturnOnly ==
    /\ pc = "finally"
    /\ calls' = IF exc = "none"
                THEN Append(calls, Call("report", "-", 5, NoId, NoId, None,
                                        None, NoId, None, "-", TRUE))
                ELSE calls
    /\ pc' = IF exc = "none" THEN "returned" ELSE "raised"
    /\ UNCHANGED <<A_to_B, store_A, store_B, next_A, next_B, changes_A,
                   changes_B, rs, todo, locals, stats, exc, pre, accurate>>

\* The finally clause of sync: the statistics are logged, then sync returns
\* or the exception goes on to the caller.
Report ==
    /\ pc = "finally"
    /\ calls' = Append(calls, Call("report", "-", 5, NoId, NoId, None, None,
                                   NoId, None, "-", TRUE))
    /\ pc' = IF exc = "none" THEN "returned" ELSE "raised"
    /\ UNCHANGED <<A_to_B, store_A, store_B, next_A, next_B, changes_A,
                   changes_B, rs, todo, locals, stats, exc, pre, accurate>>

\* sync is called again on the same Synchronizer with the same change sets,
\* the stores being as the call before left them.  self._stats is the tuple
\* built by __init__: nothing replaces or clears it.
SyncAgain ==
    /\ pc \in {"returned", "raised"}
    /\ Runs(calls) < MaxRuns
    /\ pc' = "new_A"
    /\ todo' = changes_A.new
    /\ locals' = NoLocals
    /\ exc' = "none"
    /\ pre' = [A_to_B |-> A_to_B, store_A |-> store_A, store_B |-> store_B]
    /\ accurate' = Accurate(A_to_B, store_A, store_B, changes_A, changes_B)
    /\ UNCHANGED <<A_to_B, store_A, store_B, next_A, next_B, changes_A,
                   changes_B, rs, stats, calls>>

Next ==
    \/ Sync
    \/ NewItemFromA
    \/ EndNewFromA
    \/ NewItemFromB
    \/ Classify
    \/ ResolveConflict
    \/ EndConflicts
    \/ PropagateFromB
    \/ EndPropagateFromB
    \/ PropagateFromA
    \/ EndPropagateFromA
    \/ Report

Spec == Init /\ [][Next]_vars

SpecOrder == InitOrder /\ [][Next]_vars

NextRepeat == Next \/ SyncAgain

\* A Synchronizer used for several calls of sync
SpecRepeat == InitRepeat /\ [][NextRepeat]_vars

(***************************************************************************)
(* The resolution strategies on their own: resolve is called once on the   *)
(* items of the pair (1, 12), each absent or present with a date.          *)
(***************************************************************************)
InitRS ==
    \E dA \in 0..MaxDate, dB \in 0..MaxDate, strategy \in all_resolution_strategies :
        /\ A_to_B = {<<1, 12>>}
        /\ store_A = IF dA = 0 THEN << >> ELSE (1 :> ItemA(dA))
        /\ store_B = IF dB = 0 THEN << >> ELSE (12 :> ItemB(dB))
        /\ next_A = 4
        /\ next_B = 14
        /\ changes_A = [new |-> {}, modified |-> {}, deleted |-> {}]
        /\ changes_B = [new |-> {}, modified |-> {}, deleted |-> {}]
        /\ rs = strategy
        /\ pc = "resolve"
        /\ todo = {}
        /\ locals = NoLocals
        /\ stats = [A |-> TypeStats, B |-> TypeStats]
        /\ calls = << >>
        /\ exc = "none"
        /\ pre = [A_to_B |-> {}, store_A |-> << >>, store_B |-> << >>]
        /\ accurate = FALSE

\* rs.resolve(item_A, item_B): the date getter invocations it makes and its
\* result are recorded; a date getter handed None raises.
Resolve ==
    /\ pc = "resolve"
    /\ LET item_A == item_getter(store_A, 1)
           item_B == item_getter(store_B, 12)
           dates == IF rs \in {"MostRecentRS", "LeastRecentRS"}
                    THEN RecencyRS_date_getter_calls(item_A, item_B)
                    ELSE << >>
           result == resolve(rs, item_A, item_B)
       IN  /\ calls' = [i \in 1..Len(dates) |->
                           Call("date", IF i = 1 THEN "A" ELSE "B", 0,
                                IF i = 1 THEN 1 ELSE 12, NoId, dates[i], None,
                                NoId, None, "-", dates[i] # None)]
                        \o <<Call("resolve", "-", 0, 12, 1, item_A, item_B,
                                  NoId, result.item, result.id, TRUE)>>
           /\ exc' = IF \E i \in 1..Len(dates) : dates[i] = None
                     THEN "AttributeError" ELSE "none"
    /\ pc' = "resolved"
    /\ UNCHANGED <<A_to_B, store_A, store_B, next_A, next_B, changes_A,
                   changes_B, rs, todo, locals, stats, pre, accurate>>

NextRS == Resolve

SpecRS == InitRS /\ [][NextRS]_vars

\* sync is an ordinary sequential call: once called it keeps running, every
\* callback returning or raising in finite time.
SpecLive == InitLive /\ [][Next]_vars /\ WF_vars(Next)

(***************************************************************************)
(* The claims.                                                             *)
(***************************************************************************)
\* The recorded invocations of callback op of side `side`
CallsOf(op, side) ==
    {i \in 1..Len(calls) : calls[i].op = op /\ calls[i].side = side}

\* The recorded invocations that raised
Failed == {i \in 1..Len(calls) : ~calls[i].ok}

\* The recorded conversions that returned no item without raising
Declined ==
    {i \in 1..Len(calls) :
        calls[i].op = "convert" /\ calls[i].ok /\ calls[i].ritem = None}

\* The change sets handed to sync are pairwise disjoint (the Change Set's
\* invariant).
Disjoint ==
    /\ changes_A.new \cap touched(changes_A) = {}
    /\ changes_A.modified \cap changes_A.deleted = {}
    /\ changes_B.new \cap touched(changes_B) = {}
    /\ changes_B.modified \cap changes_B.deleted = {}

\* The two stores agree under the map: every pair has an item on both sides,
\* one the conversion of the other, and every stored item has a correspondent.
Agreement ==
    /\ \A p \in A_to_B :
          /\ p[1] \in DOMAIN store_A
          /\ p[2] \in DOMAIN store_B
          /\ \/ store_B[p[2]] = converter_to_B(store_A[p[1]])
             \/ store_A[p[1]] = converter_to_A(store_B[p[2]])
    /\ DOMAIN store_A \subseteq KeysA(A_to_B)
    /\ DOMAIN store_B \subseteq KeysB(A_to_B)

\* C1, as stated: if the stores agreed before the changes, the change sets
\* describe the changes accurately and no callback fails, the stores agree
\* once sync has returned.
C1_Original ==
    (pc = "returned" /\ accurate /\ Failed = {}) => Agreement

\* C1, amended: if the stores agreed before the changes, the change sets
\* describe the changes accurately, no callback fails and no converter
\* declines an item, the stores agree once sync has returned.
C1_Convergence ==
    (pc = "returned" /\ accurate /\ Failed = {} /\ Declined = {}) => Agreement

\* A sync that returned from accurate change sets, all callbacks succeeding:
\* it inserted a new item, resolved a conflict and propagated a deletion.
C1_Witness ==
    /\ pc = "returned" /\ accurate /\ Failed = {} /\ Declined = {}
    /\ \E i \in CallsOf("insert", "B") : TRUE
    /\ \E i \in CallsOf("resolve", "-") : TRUE
    /\ \E i \in CallsOf("delete", "A") \cup CallsOf("delete", "B") : TRUE
    /\ ~(pre.store_A = store_A /\ pre.store_B = store_B)
    /\ Agreement

\* The pairs of the map, as sync found it or as it stands
Pairs == pre.A_to_B \cup A_to_B

\* The invocations of resolve for the pair p
ResolvesOf(p) ==
    {i \in CallsOf("resolve", "-") : calls[i].id = p[2] \/ calls[i].peer = p[1]}

\* The updater and deleter invocations of phase `phase` on either item of p
AppliedTo(p, phase) ==
    {i \in 1..Len(calls) :
        /\ calls[i].op \in {"update", "delete"}
        /\ calls[i].phase = phase
        /\ \/ calls[i].side = "A" /\ calls[i].id = p[1]
           \/ calls[i].side = "B" /\ calls[i].id = p[2]}

\* C2: a pair touched on both sides is resolved at most once, exactly once
\* when sync returns, and no update or delete of the non-conflict phase is
\* applied to it; a pair touched on one side only is never resolved.
C2_ConflictDetection ==
    \A p \in Pairs :
        IF p[1] \in touched(changes_A) /\ p[2] \in touched(changes_B)
        THEN /\ Cardinality(ResolvesOf(p)) <= 1
             /\ AppliedTo(p, 4) = {}
             /\ pc = "returned" => Cardinality(ResolvesOf(p)) = 1
        ELSE ResolvesOf(p) = {}

\* A returned sync that resolved one pair and propagated the change of
\* another, touched on one side only.
C2_Witness ==
    /\ pc = "returned"
    /\ \E p \in Pairs :
          /\ p[1] \in touched(changes_A) /\ p[2] \in touched(changes_B)
          /\ Cardinality(ResolvesOf(p)) = 1
    /\ \E p \in Pairs :
          /\ ~(p[1] \in touched(changes_A) /\ p[2] \in touched(changes_B))
          /\ AppliedTo(p, 4) # {}

\* The inserter invocations of side `side` made for the new identifier id_
InsertsFor(id_, side) == {i \in CallsOf("insert", side) : calls[i].id = id_}

\* The new identifiers of A whose getter and converter both returned an item
EligibleA ==
    {id_ \in changes_A.new :
        /\ id_ \in DOMAIN pre.store_A
        /\ \E i \in CallsOf("convert", "B") :
              calls[i].phase = 1 /\ calls[i].id = id_ /\ calls[i].ritem # None}

\* The new identifiers of B whose getter and converter both returned an item
EligibleB ==
    {id_ \in changes_B.new :
        /\ id_ \in DOMAIN pre.store_B
        /\ \E i \in CallsOf("convert", "A") :
              calls[i].phase = 1 /\ calls[i].id = id_ /\ calls[i].ritem # None}

\* The new identifiers that phase 1 has visited
VisitedNew(side) ==
    IF pc = "idle" THEN {}
    ELSE IF side = "A"
    THEN (IF pc = "new_A" THEN changes_A.new \ todo ELSE changes_A.new)
    ELSE (IF pc = "new_A" THEN {}
          ELSE IF pc = "new_B" THEN changes_B.new \ todo ELSE changes_B.new)

\* The inserter invocations that returned an identifier
Inserted == {i \in CallsOf("insert", "A") \cup CallsOf("insert", "B") : calls[i].ok}

\* No exception but the KeyError of phase 2 leaves sync before phase 2 is done
NoFailureInPhase1 == exc \notin {"none", "KeyError"} => locals # NoLocals

\* What C3 says of the identifiers that are not inserted: no inserter call,
\* no map entry, no failure of sync.
C3_Skipped ==
    /\ NoFailureInPhase1
    /\ \A id_ \in VisitedNew("A") \ EligibleA :
          InsertsFor(id_, "B") = {} /\ id_ \notin KeysA(A_to_B)
    /\ \A id_ \in VisitedNew("B") \ EligibleB :
          InsertsFor(id_, "A") = {} /\ id_ \notin KeysB(A_to_B)

WinnerItem(r) == IF r.win = "A" THEN r.item ELSE r.other

Loser(r) == IF r.win = "A" THEN "B" ELSE "A"

LoserId(r) == IF r.win = "A" THEN r.id ELSE r.peer

WinnerId(r) == IF r.win = "A" THEN r.peer ELSE r.id

PairOf(r) == <<r.peer, r.id>>

\* The resolves that a side won
Won == {i \in CallsOf("resolve", "-") : calls[i].win \in {"A", "B"}}

\* The updater invocations of the conflict phase on the loser of resolve r
LoserUpdates(r) ==
    {i \in CallsOf("update", Loser(r)) :
        calls[i].phase = 3 /\ calls[i].id = LoserId(r)}

\* The deleter invocations on either item of pair p
DeletesOf(p) ==
    {i \in CallsOf("delete", "A") : calls[i].id = p[1]}
       \cup {i \in CallsOf("delete", "B") : calls[i].id = p[2]}

\* The updater invocations on either item of pair p
UpdatesOf(p) ==
    {i \in CallsOf("update", "A") : calls[i].id = p[1]}
       \cup {i \in CallsOf("update", "B") : calls[i].id = p[2]}

\* Whether the conversion of the winner's item of resolve r returned an item
WinnerConverted(r) ==
    \E i \in CallsOf("convert", Loser(r)) :
        /\ calls[i].phase = 3 /\ calls[i].id = WinnerId(r)
        /\ calls[i].ritem # None

\* Each side's "updated" count is the number of its updater invocations, and
\* its "deleted" count the number of its deleter invocations.
CountedOnce ==
    \A side \in {"A", "B"} :
        /\ stats[side].updated = Cardinality(CallsOf("update", side))
        /\ stats[side].deleted = Cardinality(CallsOf("delete", side))

\* The conversion of item to the representation of side to_side
Converted(to_side, item) ==
    IF to_side = "A" THEN converter_to_A(item) ELSE converter_to_B(item)

\* C4, as stated: when the winner of a conflict has a present item, the
\* loser's updater is called exactly once with the loser's identifier and the
\* converted winner item, no deleter is called for the pair, the pair stays
\* in the map and the loser's "updated" count grows by one, also when the
\* loser had recorded the identifier as deleted.
C4_Original ==
    /\ CountedOnce
    /\ \A w \in Won :
          LET r == calls[w] IN
          WinnerItem(r) # None =>
              /\ Cardinality(LoserUpdates(r)) = 1
              /\ \A i \in LoserUpdates(r) :
                    calls[i].item = Converted(Loser(r), WinnerItem(r))
              /\ DeletesOf(PairOf(r)) = {}
              /\ PairOf(r) \in A_to_B

\* C4, amended: as stated, provided the converter returns an item for the
\* winner's item; when it returns none (it declined or raised) no updater is
\* called and "updated" does not grow, the pair staying in the map with no
\* deleter called.
C4_PresentWinner ==
    /\ CountedOnce
    /\ \A w \in Won :
          LET r == calls[w] IN
          WinnerItem(r) # None =>
              /\ IF WinnerConverted(r)
                 THEN /\ Cardinality(LoserUpdates(r)) = 1
                      /\ \A i \in LoserUpdates(r) :
                            calls[i].item = Converted(Loser(r), WinnerItem(r))
                 ELSE UpdatesOf(PairOf(r)) = {}
              /\ DeletesOf(PairOf(r)) = {}
              /\ PairOf(r) \in A_to_B

\* X modified on A and deleted on B, A wins with its item: B's updater has
\* stored the converted item under B's identifier and the pair is kept.
C4_Witness ==
    /\ pc = "returned"
    /\ \E w \in Won :
          LET r == calls[w] IN
          /\ r.win = "A" /\ r.item # None
          /\ r.id \in changes_B.deleted /\ r.id \notin DOMAIN pre.store_B
          /\ \E i \in LoserUpdates(r) : calls[i].ok
          /\ store_B[r.id] = converter_to_B(r.item)
          /\ stats["B"].updated = 1
          /\ PairOf(r) \in A_to_B

\* Whether the loser of resolve r had recorded its identifier as deleted
LoserDeleted(r) ==
    IF r.win = "A" THEN r.id \in changes_B.deleted
    ELSE r.peer \in changes_A.deleted

\* The deleter invocations of the conflict phase on the loser of resolve r
LoserDeletes(r) ==
    {i \in CallsOf("delete", Loser(r)) :
        calls[i].phase = 3 /\ calls[i].id = LoserId(r)}

\* C5, as stated: when the winner's item is absent and the loser has not
\* recorded the identifier as deleted, the loser's deleter is called exactly
\* once with the loser's identifier, the pair leaves the map, the loser's
\* "deleted" count grows by one and no updater is called for the pair.
C5_Original ==
    /\ CountedOnce
    /\ \A w \in Won :
          LET r == calls[w] IN
          (WinnerItem(r) = None /\ ~LoserDeleted(r)) =>
              /\ Cardinality(LoserDeletes(r)) = 1
              /\ DeletesOf(PairOf(r)) = LoserDeletes(r)
              /\ PairOf(r) \notin A_to_B
              /\ UpdatesOf(PairOf(r)) = {}

\* C5, amended: as stated, but the pair leaves the map only if the deleter
\* call returned; when the deleter raised the pair stays in the map.
C5_AbsentWinner ==
    /\ CountedOnce
    /\ \A w \in Won :
          LET r == calls[w] IN
          (WinnerItem(r) = None /\ ~LoserDeleted(r)) =>
              /\ Cardinality(LoserDeletes(r)) = 1
              /\ DeletesOf(PairOf(r)) = LoserDeletes(r)
              /\ \A i \in LoserDeletes(r) :
                    calls[i].ok <=> PairOf(r) \notin A_to_B
              /\ UpdatesOf(PairOf(r)) = {}

\* X deleted on A and modified on B, A wins with no item: B's deleter has
\* removed B's item and the pair is gone.
C5_Witness ==
    /\ pc = "returned"
    /\ \E w \in Won :
          LET r == calls[w] IN
          /\ r.win = "A" /\ r.item = None /\ r.other # None
          /\ r.id \in changes_B.modified
          /\ \E i \in LoserDeletes(r) : calls[i].ok
          /\ r.id \notin DOMAIN store_B
          /\ PairOf(r) \notin A_to_B
          /\ stats["B"].deleted = 1

\* The pairs deleted on both sides, neither store holding the item
DoublyDeleted ==
    {p \in pre.A_to_B :
        /\ p[1] \in changes_A.deleted /\ p[1] \notin DOMAIN pre.store_A
        /\ p[2] \in changes_B.deleted /\ p[2] \notin DOMAIN pre.store_B}

\* C6: under a built-in strategy, a pair deleted on both sides (both getters
\* reporting no item) gets no deleter and no updater call, hence no "deleted"
\* count, and once sync has returned neither identifier is in the map.
C6_DoubleDeletion ==
    rs \in all_resolution_strategies =>
        /\ CountedOnce
        /\ \A p \in DoublyDeleted :
              /\ DeletesOf(p) = {}
              /\ UpdatesOf(p) = {}
              /\ pc = "returned" =>
                    p[1] \notin KeysA(A_to_B) /\ p[2] \notin KeysB(A_to_B)

\* A returned sync under AlwaysSecondRS that resolved a pair deleted on both
\* sides: the pair is gone and no deleter was called at all.
C6_Witness ==
    /\ pc = "returned" /\ rs = "AlwaysSecondRS"
    /\ \E p \in DoublyDeleted :
          /\ Cardinality(ResolvesOf(p)) = 1
          /\ p \notin A_to_B
    /\ CallsOf("delete", "A") \cup CallsOf("delete", "B") = {}
    /\ stats["A"].deleted = 0 /\ stats["B"].deleted = 0

\* The updater, deleter invocations of side `side` on identifier id_, and its
\* inserter invocations that returned id_
UpdatesOn(side, id_) == {i \in CallsOf("update", side) : calls[i].id = id_}

DeletesOn(side, id_) == {i \in CallsOf("delete", side) : calls[i].id = id_}

InsertsAs(side, id_) == {i \in CallsOf("insert", side) : calls[i].rid = id_}

\* Whether phase 4 converted the item of identifier id_ for side to_side and
\* the converter returned an item
ConvertedFor(id_, to_side) ==
    \E i \in CallsOf("convert", to_side) :
        calls[i].phase = 4 /\ calls[i].id = id_ /\ calls[i].ritem # None

\* What C7 says of pair p for a change that comes from side X: with
\* asStated, every modification reaches the updater and every deletion
\* removes the pair; without, a modification reaches the updater when the
\* converter returned an item and a deletion removes the pair when the
\* deleter returned.
PropagatedOnly(p, X, asStated) ==
    LET Y == IF X = "A" THEN "B" ELSE "A"
        x == IF X = "A" THEN p[1] ELSE p[2]
        y == IF X = "A" THEN p[2] ELSE p[1]
        cX == IF X = "A" THEN changes_A ELSE changes_B
        cY == IF X = "A" THEN changes_B ELSE changes_A
        preX == IF X = "A" THEN pre.store_A ELSE pre.store_B
        U == UpdatesOn(Y, y)
        D == DeletesOn(Y, y)
    IN  (x \in touched(cX) /\ y \notin touched(cY)) =>
            /\ UpdatesOn(X, x) = {} /\ DeletesOn(X, x) = {} /\ InsertsAs(X, x) = {}
            /\ InsertsAs(Y, y) = {}
            /\ IF x \in cX.modified
               THEN /\ D = {}
                    /\ p \in A_to_B
                    /\ Cardinality(U) <= 1
                    /\ \A i \in U : /\ calls[i].phase = 4
                                    /\ calls[i].item = Converted(Y, preX[x])
                    /\ pc = "returned" =>
                          IF asStated \/ ConvertedFor(x, Y)
                          THEN Cardinality(U) = 1 ELSE U = {}
               ELSE /\ U = {}
                    /\ Cardinality(D) <= 1
                    /\ \A i \in D : calls[i].phase = 4
                    /\ pc = "returned" =>
                          /\ Cardinality(D) = 1
                          /\ IF asStated THEN p \notin A_to_B
                             ELSE \A i \in D : calls[i].ok <=> p \notin A_to_B

\* C7, as stated: a change of one side whose correspondent is untouched is
\* applied to the opposite side only: a modification by exactly one updater
\* call with the correspondent and the converted item, the pair staying; a
\* deletion by exactly one deleter call for the correspondent, the pair
\* leaving the map; no callback of the originating side is called for it.
C7_Original ==
    Disjoint =>
        \A p \in pre.A_to_B : PropagatedOnly(p, "A", TRUE) /\ PropagatedOnly(p, "B", TRUE)

\* C7, amended: as stated, but the updater is called (once) only when the
\* converter returned an item, and the pair leaves the map only when the
\* deleter call returned.
C7_Propagation ==
    Disjoint =>
        \A p \in pre.A_to_B : PropagatedOnly(p, "A", FALSE) /\ PropagatedOnly(p, "B", FALSE)

\* A returned sync that applied a modification of B to A's correspondent and
\* a deletion of A to B's correspondent, whose pair is gone.
C7_Witness ==
    /\ pc = "returned" /\ Disjoint
    /\ \E p \in pre.A_to_B :
          /\ p[2] \in changes_B.modified /\ p[1] \notin touched(changes_A)
          /\ \E i \in UpdatesOn("A", p[1]) : calls[i].ok
          /\ store_A[p[1]] = converter_to_A(pre.store_B[p[2]])
          /\ p \in A_to_B
    /\ \E p \in pre.A_to_B :
          /\ p[1] \in changes_A.deleted /\ p[2] \notin touched(changes_B)
          /\ \E i \in DeletesOn("B", p[2]) : calls[i].ok
          /\ p[2] \notin DOMAIN store_B
          /\ p \notin A_to_B

\* The fatal conditions of sync: a touched identifier without correspondent,
\* a Mix resolution, a modified identifier without item, an identifier
\* neither modified nor deleted, a value the bidict already holds.
FatalConditions ==
    {"KeyError", "MixError", "AssertionError", "ProgrammaticError",
     "ValueDuplicationError"}

\* The identifiers of B whose correspondent was touched on A, and of A whose
\* correspondent was touched on B
TouchedAInB == {p[2] : p \in {q \in pre.A_to_B : q[1] \in touched(changes_A)}}

TouchedBInA == {p[1] : p \in {q \in pre.A_to_B : q[2] \in touched(changes_B)}}

\* Every identifier of the new, conflict and non-conflict sets was processed:
\* its item was handed to the converter, its pair to resolve, or its
\* correspondent to the deleter.
AllProcessed ==
    /\ \A id_ \in changes_A.new \cap DOMAIN pre.store_A :
          \E i \in CallsOf("convert", "B") : calls[i].phase = 1 /\ calls[i].id = id_
    /\ \A id_ \in changes_B.new \cap DOMAIN pre.store_B :
          \E i \in CallsOf("convert", "A") : calls[i].phase = 1 /\ calls[i].id = id_
    /\ \A b \in touched(changes_B) \cap TouchedAInB :
          \E i \in CallsOf("resolve", "-") : calls[i].id = b
    /\ \A b \in touched(changes_B) \ TouchedAInB :
          IF b \in changes_B.modified
          THEN \E i \in CallsOf("convert", "A") : calls[i].phase = 4 /\ calls[i].id = b
          ELSE \E i \in CallsOf("delete", "A") : calls[i].phase = 4 /\ calls[i].peer = b
    /\ \A a \in touched(changes_A) \ TouchedBInA :
          IF a \in changes_A.modified
          THEN \E i \in CallsOf("convert", "B") : calls[i].phase = 4 /\ calls[i].id = a
          ELSE \E i \in CallsOf("delete", "B") : calls[i].phase = 4 /\ calls[i].peer = a

\* A callback raised in this step
FailedInStep ==
    \E i \in (Len(calls) + 1)..Len(calls') : ~calls'[i].ok

\* C8: a step in which an insert, update, delete or convert callback raised
\* propagates no exception and leaves its loop running; only a fatal
\* condition ever propagates; and a sync that returns has processed every
\* identifier of the new, conflict and non-conflict sets.
C8_FailureIsolation ==
    /\ [][FailedInStep => exc' = "none" /\ pc' = pc]_vars
    /\ [](exc \in FatalConditions \cup {"none"})
    /\ [](pc = "returned" => AllProcessed)

\* A returned sync in which a callback raised and a later callback was still
\* invoked for another identifier.
C8_Witness ==
    /\ pc = "returned"
    /\ \E i \in Failed : \E j \in (i + 1)..Len(calls) :
          /\ calls[j].op \in {"convert", "insert", "update", "delete"}
          /\ calls[j].ok
          /\ calls[j].id # calls[i].id /\ calls[j].id # calls[i].peer

\* The invocations of op recorded by this step
StepCalls(op) ==
    {i \in (Len(calls) + 1)..Len(calls') : calls'[i].op = op}

\* The pair an inserter invocation stands for: (source id, returned id)
InsertedPair(c) ==
    IF c.side = "B" THEN <<c.id, c.rid>> ELSE <<c.rid, c.id>>

\* Whether deleter invocation c removed an item of pair p
DeletedFrom(c, p) ==
    IF c.side = "A" THEN c.id = p[1] ELSE c.id = p[2]

\* C9: in every step, a pair enters the Correspondence Map only with an
\* inserter invocation that returned, and a step whose inserter raised adds
\* no pair; a pair for which a deleter was invoked leaves the map only if
\* that invocation returned, and a step whose deleter raised removes no pair
\* (the only removal without a deleter is that of a pair whose item was
\* already deleted on the side a conflict resolves to).
C9_MapOnSuccess ==
    [][ /\ \A p \in A_to_B' \ A_to_B :
              \E i \in StepCalls("insert") :
                  calls'[i].ok /\ InsertedPair(calls'[i]) = p
        /\ \A i \in StepCalls("insert") :
              ~calls'[i].ok =>
                  /\ A_to_B' = A_to_B
                  /\ IF calls'[i].side = "B"
                     THEN calls'[i].id \notin KeysA(A_to_B')
                     ELSE calls'[i].id \notin KeysB(A_to_B')
        /\ \A p \in A_to_B \ A_to_B' :
              \/ \E i \in StepCalls("delete") :
                    calls'[i].ok /\ DeletedFrom(calls'[i], p)
              \/ /\ StepCalls("delete") = {}
                 /\ p[1] \in changes_A.deleted \/ p[2] \in changes_B.deleted
        /\ \A i \in StepCalls("delete") :
              ~calls'[i].ok =>
                  \A p \in A_to_B : DeletedFrom(calls'[i], p) => p \in A_to_B'
      ]_vars

\* A returned sync in which a deleter raised and the pair of its identifier
\* is still in the map, or an inserter raised and its identifier is unmapped.
C9_Witness ==
    /\ pc = "returned"
    /\ \E i \in Failed :
          \/ /\ calls[i].op = "delete"
             /\ \E p \in A_to_B : DeletedFrom(calls[i], p)
          \/ /\ calls[i].op = "insert"
             /\ calls[i].id \notin (KeysA(A_to_B) \cup KeysB(A_to_B))
    /\ \E i \in 1..Len(calls) :
          calls[i].ok /\ calls[i].op \in {"insert", "delete"}

\* The recorded invocations of the callbacks of side that raised
FailedOf(side) == {i \in Failed : calls[i].side = side}

\* C10: after a sync call the error count of each side equals the number of
\* insert, update, delete and convert invocations for that side that raised
\* during the call.
C10_ErrorCount ==
    pc \in {"returned", "raised"} =>
        \A side \in {"A", "B"} :
            stats[side].errors = Cardinality(FailedOf(side))

\* The recorded invocations of callback op of side `side` that returned
Succeeded(op, side) == {i \in CallsOf(op, side) : calls[i].ok}

\* The pairs Phase 1 recorded for the items inserted to `side`
RecordedByPhase1(side) ==
    {p \in A_to_B \ pre.A_to_B :
        \E i \in Succeeded("insert", side) : InsertedPair(calls[i]) = p}

\* C11: after sync the 'created', 'updated' and 'deleted' counts of a side
\* count the inserter, updater and deleter invocations of that side that
\* succeeded: 'created' equals the number of correspondences Phase 1 recorded
\* for the side, 'deleted' the number of successful deleter calls on it.
C11_StatsOnSuccess ==
    pc \in {"returned", "raised"} =>
        \A side \in {"A", "B"} :
            /\ stats[side].created_new = Cardinality(RecordedByPhase1(side))
            /\ stats[side].created_new = Cardinality(Succeeded("insert", side))
            /\ stats[side].updated = Cardinality(Succeeded("update", side))
            /\ stats[side].deleted = Cardinality(Succeeded("delete", side))

\* C12: a getter's 'not found' is an absent item and never an error: for every
\* identifier fetched (new, conflicting, or modified without conflict) sync
\* goes on, so the only exceptions that ever propagate are those of the map
\* lookup, the Mix outcome, the unclassified identifier and the bidict - never
\* the AssertionError of an absent item.
C12_GetterNotFound ==
    exc \in {"none", "KeyError", "MixError", "ProgrammaticError",
             "ValueDuplicationError"}

\* The recorded resolutions whose result was Mix
MixResolves == {i \in CallsOf("resolve", "-") : calls[i].win = "Mix"}

\* The touched identifiers of B (conflicting or not) and the touched
\* identifiers of A without conflict for which nothing was recorded
Unprocessed ==
    {b \in touched(changes_B) :
        \A i \in 1..Len(calls) :
            calls[i].phase \in {3, 4} => calls[i].id # b /\ calls[i].peer # b}
      \cup
    {a \in touched(changes_A) \ TouchedBInA :
        \A i \in 1..Len(calls) :
            calls[i].phase \in {3, 4} => calls[i].id # a /\ calls[i].peer # a}

\* C13: once the strategy has answered Mix for a pair, a failure is on its way
\* to the caller; no updater or deleter is invoked for the pair, which stays
\* in the map as it was; and nothing but the report is invoked afterwards.
C13_MixFatal ==
    \A i \in MixResolves :
        /\ exc = "MixError"
        /\ pc \in {"finally", "raised"}
        /\ <<calls[i].peer, calls[i].id>> \in A_to_B
        /\ UpdatesOf(<<calls[i].peer, calls[i].id>>) = {}
        /\ DeletesOf(<<calls[i].peer, calls[i].id>>) = {}
        /\ \A j \in (i + 1)..Len(calls) : calls[j].op = "report"
        /\ calls[i].peer \in DOMAIN store_A =>
              calls[i].peer \in DOMAIN pre.store_A
                 /\ store_A[calls[i].peer] = pre.store_A[calls[i].peer]
        /\ calls[i].id \in DOMAIN store_B =>
              calls[i].id \in DOMAIN pre.store_B
                 /\ store_B[calls[i].id] = pre.store_B[calls[i].id]

\* A sync that raised because of a Mix result, with touched identifiers left
\* that were never processed.
C13_Witness ==
    /\ pc = "raised"
    /\ exc = "MixError"
    /\ MixResolves # {}
    /\ Unprocessed # {}

\* A touched identifier of either side had no correspondent when sync was called
Unmapped ==
    \/ ~(touched(changes_A) \subseteq KeysA(pre.A_to_B))
    \/ ~(touched(changes_B) \subseteq KeysB(pre.A_to_B))

\* C14: when a modified or deleted identifier of either side has no entry in
\* the Correspondence Map, sync never returns normally: it ends with the
\* lookup's failure on its way to the caller, no resolve, updater or deleter
\* is ever invoked in the call, and the map differs from what it was only by
\* the pairs of Phase 1's insertions.
C14_LookupFatal ==
    pc # "idle" /\ Unmapped =>
        /\ pc # "returned"
        /\ pc \in {"finally", "raised"} => exc = "KeyError"
        /\ \A i \in 1..Len(calls) :
              calls[i].op \in {"convert", "insert", "report"}
                 /\ calls[i].phase \in {1, 5}
        /\ pre.A_to_B \subseteq A_to_B
        /\ \A p \in A_to_B \ pre.A_to_B :
              \E i \in 1..Len(calls) :
                  calls[i].op = "insert" /\ calls[i].ok
                     /\ InsertedPair(calls[i]) = p

\* A sync that raised for an identifier without correspondent after Phase 1
\* had inserted an item and recorded its pair, leaving a mapped touched
\* identifier unprocessed.
C14_Witness ==
    /\ pc = "raised"
    /\ Unmapped
    /\ exc = "KeyError"
    /\ A_to_B # pre.A_to_B
    /\ \E x \in Unprocessed : x \in KeysA(pre.A_to_B) \cup KeysB(pre.A_to_B)

\* The recorded emissions of the statistics summary
Reports == {i \in 1..Len(calls) : calls[i].op = "report"}

\* The summary has been emitted exactly once, as the last thing the call did
ReportedOnce ==
    /\ Cardinality(Reports) = 1
    /\ calls[Len(calls)].op = "report"

\* How the call ended: it returned with every callback having succeeded,
\* returned after a callback failed (partially applied), or raised.
Ending ==
    IF pc = "raised" THEN "fatal"
    ELSE IF pc = "returned" /\ Failed # {} THEN "partial"
    ELSE IF pc = "returned" THEN "normal"
    ELSE "running"

\* C15: every sync call comes to its end, and when it has - returned, returned
\* partially applied, or raised - the summary has been emitted exactly once
\* and after every callback invocation; it is not emitted before.
C15_Reporting ==
    /\ [](pc = "new_A" => <>(pc \in {"returned", "raised"}))
    /\ [](Ending # "running" => ReportedOnce)
    /\ [](Ending = "running" => Reports = {})

\* A sync that raised a fatal failure after callbacks had been invoked, the
\* summary being the last record.
C15_Witness ==
    /\ Ending = "fatal"
    /\ ReportedOnce
    /\ Len(calls) > 1

\* The record before the first callback invocation of the call that ended last
LastCallStart ==
    LET earlier == {0} \cup (Reports \ {Len(calls)})
    IN  CHOOSE i \in earlier : \A j \in earlier : j <= i

\* The invocations of callback op of side `side` made by the call that ended last
LastCallsOf(op, side) ==
    {i \in CallsOf(op, side) : i > LastCallStart}

\* C16: the counts a call of sync reports at its end are those of the
\* inserter, updater and deleter invocations of that call alone, whatever the
\* calls made before it on the same Synchronizer.
C16_StatsReset ==
    pc \in {"returned", "raised"} =>
        \A side \in {"A", "B"} :
            /\ stats[side].created_new = Cardinality(LastCallsOf("insert", side))
            /\ stats[side].updated = Cardinality(LastCallsOf("update", side))
            /\ stats[side].deleted = Cardinality(LastCallsOf("delete", side))

\* The inserter invocations that stored the item of new identifier id_ in the
\* store of `side`
StoredFor(id_, side) == {i \in Succeeded("insert", side) : calls[i].id = id_}

\* C17: over successive calls of sync with the same change sets and no store
\* change in between, the item of a new identifier is inserted into the
\* opposite store at most once, and the Correspondence Map holds at most one
\* entry for the identifier.
C17_Idempotence ==
    /\ \A id_ \in changes_A.new :
          /\ Cardinality(StoredFor(id_, "B")) <= 1
          /\ Cardinality({p \in A_to_B : p[1] = id_}) <= 1
    /\ \A id_ \in changes_B.new :
          /\ Cardinality(StoredFor(id_, "A")) <= 1
          /\ Cardinality({p \in A_to_B : p[2] = id_}) <= 1

\* C18: in every state, over any number of sync calls, the Correspondence Map
\* is a bijection: no identifier of A has two correspondents and none of B has
\* two, and looking an identifier up one way and its correspondent up the
\* other way gives the identifier back.
C18_Bijection ==
    /\ \A p \in A_to_B, q \in A_to_B : (p[1] = q[1]) <=> (p[2] = q[2])
    /\ \A a \in KeysA(A_to_B) : LookupB(A_to_B, LookupA(A_to_B, a)) = a
    /\ \A b \in KeysB(A_to_B) : LookupA(A_to_B, LookupB(A_to_B, b)) = b

\* A second call of sync, in which a callback failed, has ended with Phase 1
\* having inserted over an identifier the map already paired: the pair it held
\* when the call began has been replaced.
C18_Witness ==
    /\ Runs(calls) = 2
    /\ Failed # {}
    /\ \E p \in pre.A_to_B, q \in A_to_B : p[1] = q[1] /\ p[2] # q[2]
    /\ \E p \in pre.A_to_B, q \in A_to_B : p[2] = q[2] /\ p[1] # q[1]

\* The result of the resolve recorded, and the items it was handed
Resolved == calls[Len(calls)]

\* C19: with both items present, MostRecentRS answers A with item_A if and
\* only if date(A) >= date(B) and otherwise B with item_B, LeastRecentRS
\* answers A with item_A if and only if date(A) <= date(B) and otherwise B
\* with item_B: for distinct dates the later, respectively the earlier item,
\* and A on a tie.
C19_RecencyPresent ==
    pc = "resolved" /\ Resolved.item # None /\ Resolved.other # None =>
        LET dA == Resolved.item.val
            dB == Resolved.other.val
            AWins == Resolved.win = "A" /\ Resolved.ritem = Resolved.item
            BWins == Resolved.win = "B" /\ Resolved.ritem = Resolved.other
        IN  /\ rs = "MostRecentRS" =>
                 /\ AWins <=> dA >= dB
                 /\ BWins <=> dA < dB
            /\ rs = "LeastRecentRS" =>
                 /\ AWins <=> dA <= dB
                 /\ BWins <=> dA > dB
            /\ rs \in {"MostRecentRS", "LeastRecentRS"} /\ dA = dB => AWins

\* A recency strategy has resolved two present items of the same date.
C19_Witness ==
    /\ pc = "resolved"
    /\ rs \in {"MostRecentRS", "LeastRecentRS"}
    /\ Resolved.item # None /\ Resolved.other # None
    /\ Resolved.item.val = Resolved.other.val
    /\ Resolved.win = "A"

\* The date getter invocations recorded
DateCalls == {i \in 1..Len(calls) : calls[i].op = "date"}

\* C20: when an item is absent, MostRecentRS and LeastRecentRS call no date
\* getter and raise nothing; with exactly one item absent they answer the
\* present side with its item whatever its date, with both absent they answer
\* A with an absent item.
C20_RecencyAbsent ==
    /\ pc = "resolved"
    /\ rs \in {"MostRecentRS", "LeastRecentRS"}
    /\ Resolved.item = None \/ Resolved.other = None
    => /\ DateCalls = {}
       /\ exc = "none"
       /\ Resolved.item = None /\ Resolved.other # None =>
             Resolved.win = "B" /\ Resolved.ritem = Resolved.other
       /\ Resolved.item # None /\ Resolved.other = None =>
             Resolved.win = "A" /\ Resolved.ritem = Resolved.item
       /\ Resolved.item = None /\ Resolved.other = None =>
             Resolved.win = "A" /\ Resolved.ritem = None

\* LeastRecentRS has resolved an absent item of A against a present item of B
\* in favour of B.
C20_Witness ==
    /\ pc = "resolved"
    /\ rs = "LeastRecentRS"
    /\ Resolved.item = None /\ Resolved.other # None
    /\ Resolved.win = "B"
    /\ DateCalls = {}

\* C21: AlwaysFirstRS answers A with exactly item_A and AlwaysSecondRS answers
\* B with exactly item_B, whichever of the two items are absent.
C21_AlwaysFirstSecond ==
    pc = "resolved" =>
        /\ rs = "AlwaysFirstRS" =>
              Resolved.win = "A" /\ Resolved.ritem = Resolved.item
        /\ rs = "AlwaysSecondRS" =>
              Resolved.win = "B" /\ Resolved.ritem = Resolved.other
        /\ rs \in {"AlwaysFirstRS", "AlwaysSecondRS"} =>
              exc = "none" /\ DateCalls = {}

\* AlwaysFirstRS has resolved an absent item of A against a present item of B:
\* the deletion of A wins.
C21_Witness ==
    /\ pc = "resolved"
    /\ rs = "AlwaysFirstRS"
    /\ Resolved.item = None /\ Resolved.other # None
    /\ Resolved.win = "A" /\ Resolved.ritem = None

\* The converter returned no item in this step
SkippedInStep ==
    \E i \in StepCalls("convert") : calls'[i].ritem = None

\* C22: a step in which the converter returned no item calls no inserter and
\* no updater, counts nothing, leaves the Correspondence Map and both stores
\* as they were, raises nothing and leaves its loop running.
C22_ConverterSkip ==
    [][SkippedInStep =>
          /\ StepCalls("insert") = {} /\ StepCalls("update") = {}
          /\ StepCalls("delete") = {}
          /\ stats' = stats
          /\ A_to_B' = A_to_B
          /\ store_A' = store_A /\ store_B' = store_B
          /\ exc' = "none" /\ pc' = pc
      ]_vars

\* A returned sync in which the converter declined an item to be updated and
\* a callback was still invoked afterwards.
C22_Witness ==
    /\ pc = "returned"
    /\ \E i \in Declined :
          /\ calls[i].phase \in {3, 4}
          /\ \E j \in (i + 1)..Len(calls) : calls[j].op \in {"insert", "update", "delete"}

\* This step is an update step: an item was handed to the converter for the
\* updater of the other side (conflict won by a present item, or modified
\* identifier without conflict)
UpdateStep ==
    \/ StepCalls("update") # {}
    \/ \E i \in StepCalls("convert") : calls'[i].phase \in {3, 4}

\* The change sets list no new and no deleted identifier and every touched
\* identifier has its item
OnlyModifiedPresent ==
    /\ changes_A.new = {} /\ changes_A.deleted = {}
    /\ changes_B.new = {} /\ changes_B.deleted = {}
    /\ changes_A.modified \subseteq DOMAIN pre.store_A
    /\ changes_B.modified \subseteq DOMAIN pre.store_B

\* C23: every update step leaves the Correspondence Map as it was; a pair
\* enters the map only with an inserter invocation of Phase 1 that returned,
\* and leaves it only when an item of the pair is recorded as deleted or is
\* absent; so a sync whose change sets list only modified identifiers, all
\* with their items, leaves the map identical.
C23_MapFrame ==
    /\ [][ /\ UpdateStep => A_to_B' = A_to_B
           /\ \A p \in A_to_B' \ A_to_B :
                 \E i \in StepCalls("insert") :
                     /\ calls'[i].ok /\ calls'[i].phase = 1
                     /\ InsertedPair(calls'[i]) = p
           /\ \A p \in A_to_B \ A_to_B' :
                 \/ p[1] \in changes_A.deleted \/ p[2] \in changes_B.deleted
                 \/ p[1] \notin DOMAIN store_A \/ p[2] \notin DOMAIN store_B
         ]_vars
    /\ [](pc # "idle" /\ OnlyModifiedPresent => A_to_B = pre.A_to_B)

\* A returned sync that only had modified identifiers, all with their items,
\* and that updated an item for a conflict and an item without conflict.
C23_Witness ==
    /\ pc = "returned"
    /\ OnlyModifiedPresent
    /\ \E i \in Succeeded("update", "A") \cup Succeeded("update", "B") :
          calls[i].phase = 3
    /\ \E i \in Succeeded("update", "A") \cup Succeeded("update", "B") :
          calls[i].phase = 4
    /\ A_to_B = pre.A_to_B

\* The place of a recorded invocation in the order of a sync call: Phase 1
\* for A's new set (insertions to B), Phase 1 for B's new set, the conflicts,
\* the changes without conflict, the report.
Rank(c) ==
    IF c.phase = 1 THEN (IF c.side = "B" THEN 1 ELSE 2) ELSE c.phase

\* The map as Phase 1 leaves it: the pairs held when sync was called and the
\* pairs of the inserter invocations that returned
MapAfterPhase1 ==
    pre.A_to_B \cup {InsertedPair(calls[i]) :
                        i \in {j \in Succeeded("insert", "A") \cup Succeeded("insert", "B") :
                                  calls[j].phase = 1}}

\* Every touched identifier has a correspondent in the map Phase 1 leaves
MappedAfterPhase1 ==
    /\ touched(changes_A) \subseteq KeysA(MapAfterPhase1)
    /\ touched(changes_B) \subseteq KeysB(MapAfterPhase1)

\* C24: within one sync call the invocations come in the order Phase 1 for
\* A's new set, Phase 1 for B's new set, conflicts, changes without conflict;
\* once the conflict set exists the map holds every pair of Phase 1 and
\* Phase 1 makes no further call; and the touched identifiers are looked up,
\* and the conflict set is computed, in the map as Phase 1 left it.
C24_PhaseOrder ==
    /\ \A i \in 1..Len(calls), j \in 1..Len(calls) :
          i < j => Rank(calls[i]) <= Rank(calls[j])
    /\ pc \in {"conflicts", "not_conflicts_B", "not_conflicts_A"} =>
          /\ MappedAfterPhase1
          /\ \A id_ \in changes_A.new \cap DOMAIN pre.store_A :
                \E i \in CallsOf("convert", "B") : calls[i].phase = 1 /\ calls[i].id = id_
          /\ \A id_ \in changes_B.new \cap DOMAIN pre.store_B :
                \E i \in CallsOf("convert", "A") : calls[i].phase = 1 /\ calls[i].id = id_
          /\ locals.conflicts_in_B =
                {b \in touched(changes_B) :
                    \E p \in MapAfterPhase1 : p[2] = b /\ p[1] \in touched(changes_A)}
    /\ pc \in {"conflicts", "not_conflicts_B", "not_conflicts_A", "returned"} =>
          MapAfterPhase1 \ A_to_B \subseteq pre.A_to_B
    /\ exc = "KeyError" => ~MappedAfterPhase1
    /\ pc \in {"returned", "raised"} /\ ~MappedAfterPhase1 => exc = "KeyError"

\* A returned sync in which an identifier listed as new and as modified got
\* its correspondent in Phase 1 and its update after the conflicts.
C24_Witness ==
    /\ pc = "returned"
    /\ \E i \in Succeeded("update", "B") :
          /\ calls[i].phase = 4
          /\ calls[i].peer \in changes_A.new
          /\ <<calls[i].peer, calls[i].id>> \in A_to_B \ pre.A_to_B
    /\ CallsOf("resolve", "-") # {}
    /\ Succeeded("insert", "A") # {}

\* The identifiers of B and of A that the loops still to run, or still
\* running, will look up in the map
ToLookUpB ==
    CASE pc = "conflicts" ->
            todo \cup not_conflicts_from_B(locals.touched_from_B,
                                           locals.touched_from_A_in_B_map)
      [] pc = "not_conflicts_B" -> todo
      [] OTHER -> {}

ToLookUpA ==
    CASE pc \in {"conflicts", "not_conflicts_B"} ->
            not_conflicts_from_A(locals.touched_from_A,
                                 locals.touched_from_B_in_A_map)
      [] pc = "not_conflicts_A" -> todo
      [] OTHER -> {}

\* The invocations recorded for the conflicts and the changes without conflict
LaterPhases == {i \in 1..Len(calls) : calls[i].phase \in {3, 4}}

\* C25: once every touched identifier has been mapped, every identifier still
\* to be looked up in Phase 3 or Phase 4 has its pair in the map, whatever
\* pairs have been removed since; so a lookup failure is only ever raised
\* before the first conflict is resolved.
C25_LookupsSucceed ==
    /\ ToLookUpB \subseteq KeysB(A_to_B)
    /\ ToLookUpA \subseteq KeysA(A_to_B)
    /\ exc = "KeyError" => LaterPhases = {} /\ Unmapped

\* A sync in which the pair of a conflict has been removed together with the
\* loser's item while identifiers are still to be looked up.
C25_Witness ==
    /\ \E i \in Succeeded("delete", "A") \cup Succeeded("delete", "B") :
          /\ calls[i].phase = 3
          /\ calls[i].id \notin KeysA(A_to_B) \cup KeysB(A_to_B)
    /\ KeysA(A_to_B) # KeysA(pre.A_to_B)
    /\ ToLookUpA \cup ToLookUpB # {}

\* The identifiers without conflict listed as modified and as deleted by
\* their side
BothModDelB ==
    (changes_B.modified \cap changes_B.deleted) \ TouchedAInB

BothModDelA ==
    (changes_A.modified \cap changes_A.deleted) \ TouchedBInA

\* C26: sync never raises the 'Programmatic Error' of Phase 4, whatever the
\* change sets; and an identifier without conflict that its side lists as
\* modified and as deleted is handled as modified: its item goes to the
\* converter and no deleter is invoked for its correspondent.
C26_NoProgrammaticError ==
    /\ exc # "ProgrammaticError"
    /\ \A b \in BothModDelB :
          /\ \A i \in CallsOf("delete", "A") : calls[i].peer # b
          /\ pc = "returned" =>
                \E i \in CallsOf("convert", "A") :
                    calls[i].phase = 4 /\ calls[i].id = b
    /\ \A a \in BothModDelA :
          /\ \A i \in CallsOf("delete", "B") : calls[i].peer # a
          /\ pc = "returned" =>
                \E i \in CallsOf("convert", "B") :
                    calls[i].phase = 4 /\ calls[i].id = a

\* A returned sync in which an identifier of B listed as modified and as
\* deleted, without conflict, had its correspondent updated.
C26_Witness ==
    /\ pc = "returned"
    /\ \E b \in BothModDelB :
          \E i \in Succeeded("update", "A") :
              calls[i].phase = 4 /\ calls[i].peer = b

\* The conflicts handed to the Resolution Strategy during sync
Resolutions == CallsOf("resolve", "-")

\* C27: configured with AlwaysFirstRS, AlwaysSecondRS, MostRecentRS or
\* LeastRecentRS, every resolution answers A or B, never Mix, its item is the
\* very item it was given for the winning side, and sync never raises the
\* Mix fatal condition.
C27_BuiltInNeverMix ==
    rs \in all_resolution_strategies =>
        /\ exc # "MixError"
        /\ \A i \in Resolutions :
              /\ calls[i].win \in {"A", "B"}
              /\ calls[i].win = "A" => calls[i].ritem = calls[i].item
              /\ calls[i].win = "B" => calls[i].ritem = calls[i].other

\* A returned sync with a built-in strategy that resolved one conflict of
\* two absent items and one conflict that B won with its present item.
C27_Witness ==
    /\ pc = "returned"
    /\ rs \in all_resolution_strategies
    /\ \E i \in Resolutions :
          calls[i].item = None /\ calls[i].other = None
    /\ \E i \in Resolutions :
          /\ calls[i].win = "B"
          /\ calls[i].other # None /\ calls[i].ritem = calls[i].other

====
